---- MODULE Spec2Model ----
(***************************************************************************)
(* GeoJSON-Creation-Tool: the two generation scripts                       *)
(* (scripts/create_geojson_levels.py, scripts/create_zip_geojson.py), the  *)
(* column detector they use (scripts/column_detector.py) and the Flask     *)
(* front end that runs them (app.py).                                      *)
(*                                                                         *)
(* Text is a sequence of one-character strings, so that str.replace,       *)
(* str.zfill, strip/upper/lower act on characters.  A table (DataFrame) is *)
(* [columns |-> sequence of names, rows |-> sequence of rows], a row being *)
(* the sequence of its cells in column order.  Year cells are naturals,    *)
(* every other cell is text or the missing marker.  A geometry is the set  *)
(* of boundary cells it covers; simplify() and to_crs() keep that set.     *)
(*                                                                         *)
(* pandas is taken with its object-dtype behaviour: astype(str) turns the  *)
(* missing marker into the text 'nan' (None into 'None'), groupby and      *)
(* dissolve drop missing keys (dropna=True), GroupBy.first skips missing   *)
(* cells, GroupBy.sum of numbers skips nothing that is modelled here.      *)
(***************************************************************************)
EXTENDS Integers, Sequences, FiniteSets, TLC

\* ------------------------------------------------------------------ bounds

\* Longest input table, in rows.
MaxRows == 2

\* ------------------------------------------------------------------- text

\* The missing cell (NaN) of pandas, and Python's None; no text equals them.
NaN == <<"NaN">>
None == <<"None">>

\* Series.astype(str) on one cell.
AsStr(v) ==
  IF v = NaN THEN <<"n", "a", "n">>
  ELSE IF v = None THEN <<"N", "o", "n", "e">>
  ELSE v

\* str.replace('.0', '', regex=False): every occurrence, left to right.
RECURSIVE ReplaceDotZero(_)
ReplaceDotZero(s) ==
  IF Len(s) < 2 THEN s
  ELSE IF s[1] = "." /\ s[2] = "0" THEN ReplaceDotZero(SubSeq(s, 3, Len(s)))
  ELSE <<s[1]>> \o ReplaceDotZero(Tail(s))

\* str.zfill(width): zeros on the left up to width, after a leading sign;
\* longer text unchanged.
ZFill(s, width) ==
  IF Len(s) >= width THEN s
  ELSE IF s # <<>> /\ s[1] \in {"+", "-"}
  THEN <<s[1]>> \o [i \in 1..(width - Len(s)) |-> "0"] \o Tail(s)
  ELSE [i \in 1..(width - Len(s)) |-> "0"] \o s

\* df['Zip'].astype(str).str.replace('.0', '', regex=False).str.zfill(5)
NormalizeZip(v) == ZFill(ReplaceDotZero(AsStr(v)), 5)

\* df['FIPS'].astype(str).str.zfill(5)
NormalizeFips(v) == ZFill(AsStr(v), 5)

\* str.strip() for blanks.
RECURSIVE LStrip(_)
LStrip(s) == IF s # <<>> /\ s[1] = " " THEN LStrip(Tail(s)) ELSE s

RECURSIVE RStrip(_)
RStrip(s) ==
  IF s # <<>> /\ s[Len(s)] = " " THEN RStrip(SubSeq(s, 1, Len(s) - 1)) ELSE s

Strip(s) == LStrip(RStrip(s))

UpperChars == <<"A", "B", "C", "D", "E", "F", "G", "H", "I", "J", "K", "L", "M",
                "N", "O", "P", "Q", "R", "S", "T", "U", "V", "W", "X", "Y", "Z">>
LowerChars == <<"a", "b", "c", "d", "e", "f", "g", "h", "i", "j", "k", "l", "m",
                "n", "o", "p", "q", "r", "s", "t", "u", "v", "w", "x", "y", "z">>

UpperChar(c) ==
  IF \E i \in 1..26 : LowerChars[i] = c
  THEN UpperChars[CHOOSE i \in 1..26 : LowerChars[i] = c]
  ELSE c

LowerChar(c) ==
  IF \E i \in 1..26 : UpperChars[i] = c
  THEN LowerChars[CHOOSE i \in 1..26 : UpperChars[i] = c]
  ELSE c

\* str.upper(), str.lower()
Upper(s) == [i \in 1..Len(s) |-> UpperChar(s[i])]
Lower(s) == [i \in 1..Len(s) |-> LowerChar(s[i])]

Digits == {"0", "1", "2", "3", "4", "5", "6", "7", "8", "9"}

\* str.isdigit()
IsDigit(s) == s # <<>> /\ \A i \in 1..Len(s) : s[i] \in Digits

\* 'sub' in s
Contains(s, sub) ==
  \E i \in 0..(Len(s) - Len(sub)) : SubSeq(s, i + 1, i + Len(sub)) = sub

\* ----------------------------------------------------------- column names

N_Zip == <<"Z", "i", "p">>
N_FIPS == <<"F", "I", "P", "S">>
N_County == <<"C", "o", "u", "n", "t", "y">>
N_State == <<"S", "t", "a", "t", "e">>
N_Chapter == <<"C", "h", "a", "p", "t", "e", "r">>
N_Region == <<"R", "e", "g", "i", "o", "n">>
N_Division == <<"D", "i", "v", "i", "s", "i", "o", "n">>
N_ECODE == <<"E", "C", "O", "D", "E">>
N_RCODE == <<"R", "C", "O", "D", "E">>
N_DCODE == <<"D", "C", "O", "D", "E">>
N_2023 == <<"2", "0", "2", "3">>
N_chapter_match == <<"c", "h", "a", "p", "t", "e", "r", "_", "m", "a", "t", "c", "h">>
T_Total == <<"T", "o", "t", "a", "l">>

\* ----------------------------------------------------------------- tables

Range(s) == {s[i] : i \in 1..Len(s)}

HasCol(t, name) == name \in Range(t.columns)

\* Position of a column that the table has.
ColIdx(t, name) ==
  CHOOSE i \in 1..Len(t.columns) :
    /\ t.columns[i] = name
    /\ \A j \in 1..(i - 1) : t.columns[j] # name

\* row[name]
Cell(t, row, name) == row[ColIdx(t, name)]

\* t[name] = values, row by row.
SetCol(t, name, values) ==
  [t EXCEPT !.rows =
     [r \in 1..Len(t.rows) |-> [t.rows[r] EXCEPT ![ColIdx(t, name)] = values[r]]]]

\* df['Zip'] = df['Zip'].astype(str).str.replace('.0', '', regex=False).str.zfill(5)
\* df['FIPS'] = df['FIPS'].astype(str).str.zfill(5)
NormalizeKeys(t) ==
  LET z == SetCol(t, N_Zip, [r \in 1..Len(t.rows) |-> NormalizeZip(Cell(t, t.rows[r], N_Zip))])
  IN SetCol(z, N_FIPS, [r \in 1..Len(z.rows) |-> NormalizeFips(Cell(z, z.rows[r], N_FIPS))])

\* Year cells are numbers and never missing; every other cell can be.
IsNA(name, v) == IF IsDigit(name) THEN FALSE ELSE (v = NaN \/ v = None)

\* Character order of Python text comparison, for the characters in use.
CharOrder == <<" ", "#", "-", ".", "0", "1", "2", "3", "4", "5", "6", "7", "8", "9">>
             \o UpperChars \o <<"_">> \o LowerChars

Rank(c) == CHOOSE i \in 1..Len(CharOrder) : CharOrder[i] = c

RECURSIVE TextLess(_, _)
TextLess(a, b) ==
  IF b = <<>> THEN FALSE
  ELSE IF a = <<>> THEN TRUE
  ELSE IF a[1] = b[1] THEN TextLess(Tail(a), Tail(b))
  ELSE Rank(a[1]) < Rank(b[1])

\* sorted(S) for a set of texts.
RECURSIVE SortedSeq(_)
SortedSeq(S) ==
  IF S = {} THEN <<>>
  ELSE LET m == CHOOSE x \in S : \A y \in S \ {x} : TextLess(x, y)
       IN <<m>> \o SortedSeq(S \ {m})

RECURSIVE Flatten(_)
Flatten(ss) == IF ss = <<>> THEN <<>> ELSE Head(ss) \o Flatten(Tail(ss))

RECURSIVE SumSeq(_)
SumSeq(s) == IF s = <<>> THEN 0 ELSE Head(s) + SumSeq(Tail(s))

\* The rows of t whose key cell is k, in table order.
RowsWithKey(t, key, k) ==
  LET i == ColIdx(t, key) IN SelectSeq(t.rows, LAMBDA r : r[i] = k)

\* A sum that takes the first cell of the group only.
SumCellsFirstOnly(t, rows, name) ==
  IF rows = <<>> THEN 0 ELSE Cell(t, rows[1], name)

\* df[year].sum() over a sequence of rows.
SumCells(t, rows, name) ==
  SumSeq([r \in 1..Len(rows) |-> Cell(t, rows[r], name)])

\* A first() that takes the cell of the first row of the group, missing or
\* not.
FirstCellOfFirstRow(t, rows, name) ==
  IF rows = <<>> THEN NaN ELSE Cell(t, rows[1], name)

\* GroupBy.first(): the first cell of the group that is not missing.
FirstCell(t, rows, name) ==
  LET present == SelectSeq(rows, LAMBDA r : ~IsNA(name, Cell(t, r, name)))
  IN IF present = <<>> THEN NaN ELSE Cell(t, present[1], name)

\* [col for col in df.columns if col.isdigit()]
YearCols(t) == SelectSeq(t.columns, IsDigit)

\* [col for col in df.columns if 'Total' in col]
TotalCols(t) == SelectSeq(t.columns, LAMBDA c : Contains(c, T_Total))

\* The keys groupby(key) makes groups for: missing keys are dropped.
GroupKeys(t, key) ==
  {Cell(t, t.rows[r], key) : r \in 1..Len(t.rows)} \ {NaN, None}

\* df.groupby(key).agg({first_cols: 'first', year_cols: 'sum',
\*                      totals: 'first'}).reset_index(), groups sorted by key.
GroupAgg(t, key, first_cols, totals) ==
  LET years == YearCols(t)
      out == <<key>> \o first_cols \o years \o totals
      ks == SortedSeq(GroupKeys(t, key))
      AggCell(k, name) ==
        IF name = key THEN k
        ELSE IF name \in Range(years)
          THEN SumCells(t, RowsWithKey(t, key, k), name)
          ELSE FirstCell(t, RowsWithKey(t, key, k), name)
  IN [columns |-> out,
      rows |-> [g \in 1..Len(ks) |-> [c \in 1..Len(out) |-> AggCell(ks[g], out[c])]]]

\* KeyError of groupby(key).agg(...): the key or an aggregated column is not
\* a column of the table.
AggRaises(t, key, first_cols) ==
  ~HasCol(t, key) \/ \E c \in Range(first_cols) : ~HasCol(t, c)

\* ----------------------------------------------------------------- output

\* "geometry": null
NullGeometry == {<<"null">>}

\* GeoDataFrame.to_json() properties of one row: every output column, a missing
\* cell written as null (na='null' is the default).
PropsToJson(t, row, outcols) == [c \in Range(outcols) |-> Cell(t, row, c)]

\* row.dropna().to_dict()
PropsDropna(t, row) ==
  [c \in {n \in Range(t.columns) : ~IsNA(n, Cell(t, row, n))} |-> Cell(t, row, c)]

\* boundary.merge(t, left_on=..., right_on=key, how='inner')[['geometry'] +
\* outcols].to_json(): one feature per pair of a boundary and a row of t with
\* the same key, in boundary order, each with the boundary's geometry.
\* bounds is the set of boundaries, keyOf[b] the join key of boundary b and
\* geom[b] its geometry.
JoinFeatures(bounds, keyOf, geom, t, key, outcols) ==
  LET bs == SortedSeq(bounds)
  IN Flatten([b \in 1..Len(bs) |->
       LET rs == RowsWithKey(t, key, keyOf[bs[b]])
       IN [r \in 1..Len(rs) |->
             [properties |-> PropsToJson(t, rs[r], outcols),
              geometry |-> geom[bs[b]]]]])

\* The features of the branch without geometry: one per row, missing cells
\* dropped, geometry null.
NoGeometryFeatures(t) ==
  [r \in 1..Len(t.rows) |->
     [properties |-> PropsDropna(t, t.rows[r]), geometry |-> NullGeometry]]

\* A file of the output directory: whether it is there, whether json.dump
\* came to its end, and the features it holds.
NoFile == [exists |-> FALSE, complete |-> FALSE, features |-> <<>>]
WrittenFile(fs) == [exists |-> TRUE, complete |-> TRUE, features |-> fs]

\* What open(file, 'w') followed by a json.dump that does not come to its end
\* leaves: the file is there, cut short.
TruncatedFile(fs) ==
  [exists |-> TRUE, complete |-> FALSE,
   features |-> IF fs = <<>> THEN <<>> ELSE SubSeq(fs, 1, Len(fs) - 1)]

EmptyTable == [columns |-> <<>>, rows |-> <<>>]

\* ------------------------------------------------------------- boundaries

\* A boundary table that was not obtained (None).
NoGdf == [present |-> FALSE, zip_code |-> FALSE, keys |-> {}]

\* for col in ['ZCTA5CE20', ...]: the key columns probed, in order.
ZipKeyColumnsLevels ==
  <<"ZCTA5CE20", "ZCTA5CE10", "ZCTA5", "GEOID20", "GEOID10", "GEOID">>
ZipKeyColumnsZip == ZipKeyColumnsLevels \o <<"ZCTA5CE00">>

\* zip_col: the first probed column the shapefile has, if any.
HasZipCol(cols, key_columns) == \E i \in 1..Len(key_columns) : key_columns[i] \in cols

\* A pass that keeps the frame it read, ZIP_CODE set from its first column,
\* when none of the probed columns is there.
TryZipSourceKeepsFrame(gdf, src, key_columns) ==
  CASE src.kind \in {"download_error", "bad_archive", "no_shapefile", "read_error"} ->
         [gdf |-> gdf, found |-> FALSE]
    [] src.kind = "crs_error" ->
         [gdf |-> [present |-> TRUE, zip_code |-> FALSE, keys |-> {}], found |-> FALSE]
    [] src.kind = "read" ->
         [gdf |-> [present |-> TRUE, zip_code |-> TRUE,
                   keys |-> {ZFill(AsStr(k), 5) : k \in src.keys}],
          found |-> HasZipCol(src.cols, key_columns)]

\* One pass of 'for zips_url in zip_urls' on one source.  src is what the
\* source gives: kind says how far the pass gets, cols and keys are the
\* columns and the key values of its shapefile.  The result is the value of
\* zips_gdf after the pass and whether the loop breaks.  zip_code says whether
\* the frame has the ZIP_CODE column, keys are the values of that column.
TryZipSource(gdf, src, key_columns) ==
  CASE src.kind \in {"download_error", "bad_archive", "no_shapefile", "read_error"} ->
         [gdf |-> gdf, found |-> FALSE]
    [] src.kind = "crs_error" ->
         [gdf |-> [present |-> TRUE, zip_code |-> FALSE, keys |-> {}], found |-> FALSE]
    [] src.kind = "read" ->
         IF HasZipCol(src.cols, key_columns)
         THEN [gdf |-> [present |-> TRUE, zip_code |-> TRUE,
                        keys |-> {ZFill(AsStr(k), 5) : k \in src.keys}],
               found |-> TRUE]
         ELSE [gdf |-> NoGdf, found |-> FALSE]

\* zips_gdf is not None and 'ZIP_CODE' in zips_gdf.columns
ZipGeometryAvailable(gdf) == gdf.present /\ gdf.zip_code

\* len(zip_urls)
NumZipUrls == 3

\* ----------------------------------------------------------------- inputs

Z1 == <<"0", "0", "0", "0", "1">>
Z2 == <<"0", "0", "0", "0", "2">>

\* Zip cells as read from the file: short, and with the '.0' of a float.  The
\* table is keyed by ZIP code: row i holds the i-th of them, in turn.
RawZips == <<<<"1">>, <<"2", ".", "0">>>>
RawZip(i) == RawZips[((i - 1) % Len(RawZips)) + 1]
\* FIPS cells as read from the file: missing, short, full width.
RawFips == {NaN, <<"1">>, Z2}
\* Chapter, Region and Division of a row: two branches of the hierarchy and
\* the row that is assigned to none.
Hierarchy == {<<<<"X">>, <<"R">>, <<"D">>>>, <<<<"Y">>, <<"S">>, <<"D">>>>,
              <<NaN, NaN, NaN>>}

\* The value of the year column in row i: every set of rows has its own sum.
YearValue(i) == 2 ^ (i - 1)

\* The total column 'Division Total', which every level keeps, and its value
\* in row i: another one in every row.
N_Division_Total == N_Division \o <<" ">> \o T_Total
TotalValue(i) == <<<<"1", "2", "3", "4", "5", "6", "7", "8", "9">>[i]>>

FullColumns == <<N_Zip, N_FIPS, N_County, N_State, N_Chapter, N_Region,
                 N_Division, N_ECODE, N_RCODE, N_DCODE, N_2023, N_Division_Total>>

FullRow(i, fips, h) ==
  <<RawZip(i), fips, <<"H">>, <<"M", "A">>, h[1], h[2], h[3],
    <<"E", "1">>, <<"R", "1">>, <<"D", "1">>, YearValue(i), TotalValue(i)>>

N_ZIP_Code == <<"Z", "I", "P", "_", "C", "o", "d", "e">>

\* The headers of the input files: the full one, one without FIPS, one
\* without Chapter, one without the code columns, one whose ZIP column has
\* another accepted name.  A header renames or leaves out columns of
\* FullColumns: keep[i] is the name of column i, or <<>> to leave it out.
Headers ==
  LET Without(names) == [i \in 1..Len(FullColumns) |->
                           IF FullColumns[i] \in names THEN <<>> ELSE FullColumns[i]]
  IN {FullColumns,
      Without({N_FIPS}),
      Without({N_Chapter}),
      Without({N_ECODE, N_RCODE, N_DCODE}),
      [FullColumns EXCEPT ![1] = N_ZIP_Code]}

\* The file with header h and the given full rows.
CsvFile(h, rows) ==
  LET kept == SelectSeq([i \in 1..Len(h) |-> i], LAMBDA i : h[i] # <<>>)
  IN [columns |-> [c \in 1..Len(kept) |-> h[kept[c]]],
      rows |-> [r \in 1..Len(rows) |-> [c \in 1..Len(kept) |-> rows[r][kept[c]]]]]

\* The tables of n rows drawn from the given cells.
Tables(h, n, fips, hier) ==
  {CsvFile(h, [i \in 1..n |-> FullRow(i, f[i][1], f[i][2])]) :
     f \in [1..n -> fips \X hier]}

\* Every input file of at most MaxRows rows: any rows under the full header,
\* and rows of one county and chapter under the other headers.
CsvFiles ==
  UNION {Tables(FullColumns, n, RawFips, Hierarchy)
           \cup UNION {Tables(h, n, {<<"1">>}, {<<<<"X">>, <<"R">>, <<"D">>>>}) :
                         h \in Headers \ {FullColumns}} :
         n \in 0..MaxRows}

\* What the chapter shapefile holds: nothing readable, or a frame with one
\* attribute column and the values of that column (one polygon per value).
NoChapters == [present |-> FALSE, columns |-> <<>>, values |-> {}]
ChapterSources ==
  {NoChapters,
   [present |-> TRUE, columns |-> <<<<"N", "A", "M", "E">>>>, values |-> {<<" ", "x">>}],
   [present |-> TRUE, columns |-> <<<<"I", "D">>>>, values |-> {<<"7">>}]}

\* What the county source holds: (STATEFP, COUNTYFP) of each county polygon.
CountySources ==
  {{<<<<"0", "0">>, <<"0", "0", "1">>>>},
   {<<<<"0", "0">>, <<"0", "0", "1">>>>, <<<<"0", "0">>, <<"0", "0", "2">>>>}}

\* What one ZIP source can give.
ZipSources ==
  [kind : {"download_error", "bad_archive", "no_shapefile", "read_error", "crs_error"},
   cols : {{}}, keys : {{}}]
  \cup [kind : {"read"},
        cols : {{"ZCTA5CE20", "GEOID20"}, {"ZCTA5CE00"}, {"NAME"}},
        keys : {{Z1}, {Z1, Z2}}]

Levels == {"zip", "county", "chapter", "region", "division"}

\* ------------------------------------------------------------------ state

VARIABLES
  script,        \* which generation script runs: "levels" or "zip"
  pc,            \* where the script is
  csv,           \* CSV_FILE as read_csv returns it
  df,            \* the table the script works on
  chapters_gdf,  \* chapter shapefile, or NoChapters
  counties_gdf,  \* county boundaries, or NoGdf; keys are FIPS values
  zips_gdf,      \* ZIP boundaries, or NoGdf
  zip_try,       \* the source 'for zips_url in zip_urls' is at; 0 outside the loop
  zip_log,       \* the sources tried so far, as the script prints them
  county_agg, chapter_agg, region_agg, division_agg,
  files,         \* OUTPUT_DIR: the feature collection written for each level
  levels,        \* app.py: the levels of the request being processed
  level_i,       \* app.py: the level 'for level in levels' is at
  generated_files, \* app.py: the results collected so far
  out_dir,       \* app.py: the GeoJSON files on disk: directory, level, input
  response,      \* app.py: what process_file returned, status 0 before it does
  filename,      \* app.py: the uploaded file the request names
  cwd,           \* app.py: the working directory of the server process
  dirs,          \* app.py: the directories on disk
  copied,        \* app.py: the directories holding a copied CSV and the scripts
  last_run,      \* app.py: how the last run of a script ended
  download,      \* app.py: what download_file returned, status 0 before it does
  threads        \* app.py: the requests handled at the same time

vars == <<script, pc, csv, df, chapters_gdf, counties_gdf, zips_gdf,
          zip_try, zip_log, county_agg, chapter_agg, region_agg, division_agg, files,
          levels, level_i, generated_files, out_dir, response,
          filename, cwd, dirs, copied, last_run, download, threads>>

boundaries == <<chapters_gdf, counties_gdf, zips_gdf, zip_try, zip_log>>
aggregates == <<county_agg, chapter_agg, region_agg, division_agg>>
appvars == <<levels, level_i, generated_files, out_dir, response,
             filename, cwd, dirs, copied, last_run, download, threads>>

\* The names of app.py's directories, as text.
T_app == <<"a", "p", "p">>
T_uploads == <<"u", "p", "l", "o", "a", "d", "s">>
T_outputs == <<"o", "u", "t", "p", "u", "t", "s">>
T_geojson_output == <<"g", "e", "o", "j", "s", "o", "n", "_", "o", "u", "t", "p", "u", "t">>
T_session == <<"s", "e", "s", "s", "i", "o", "n", "_">>

\* A directory is the sequence of the names that lead to it from the root of
\* the file system; a relative path is the sequence of its names, resolved
\* against the working directory when it is used.  AppDir is the directory
\* the server is started in.
AppDir == <<T_app>>
\* UPLOAD_FOLDER = 'uploads', OUTPUT_FOLDER = 'outputs'
UPLOAD_FOLDER == <<T_uploads>>
OUTPUT_FOLDER == <<T_outputs>>

\* The upload that the requests handled one at a time name: its session
\* directory, with what earlier requests left in it, is used again.
Uploaded == <<"a">>

\* The requests the server can handle at the same time.
Threads == {1, 2}

NoResponse == [status |-> 0, files |-> <<>>, error |-> ""]
NoRun == [kind |-> "none", written |-> {}, missing |-> {}]
NoDownload == [status |-> 0, path |-> <<>>, file |-> <<>>]
IdleThread ==
  [pc |-> "idle", filename |-> <<>>, level |-> "", original_dir |-> <<>>,
   ran_in |-> <<>>, run |-> NoRun, status |-> 0, files |-> {}]

\* The server after start: os.makedirs(UPLOAD_FOLDER), os.makedirs(OUTPUT_FOLDER)
\* in the directory it was started in, no request yet.
AppAtStart ==
  /\ levels = <<>>
  /\ level_i = 0
  /\ generated_files = <<>>
  /\ out_dir = {}
  /\ response = NoResponse
  /\ filename = <<>>
  /\ cwd = AppDir
  /\ dirs = {AppDir, AppDir \o UPLOAD_FOLDER, AppDir \o OUTPUT_FOLDER}
  /\ copied = {}
  /\ last_run = NoRun
  /\ download = NoDownload
  /\ threads = [t \in Threads |-> IdleThread]

Init ==
  /\ script \in {"levels", "zip"}
  /\ pc = "load"
  /\ csv \in CsvFiles
  /\ df = EmptyTable
  /\ chapters_gdf = NoChapters
  /\ counties_gdf = NoGdf
  /\ zips_gdf = NoGdf
  /\ zip_try = 0
  /\ zip_log = <<>>
  /\ county_agg = EmptyTable
  /\ chapter_agg = EmptyTable
  /\ region_agg = EmptyTable
  /\ division_agg = EmptyTable
  /\ files = [l \in Levels |-> NoFile]
  /\ AppAtStart

\* ------------------------------------------- create_geojson_levels.py

\* Step 1.  df['Zip'] and df['FIPS'] raise KeyError when the file has no such
\* column: the script ends with a traceback.
LoadCsv ==
  /\ script = "levels" /\ pc = "load"
  /\ IF HasCol(csv, N_Zip) /\ HasCol(csv, N_FIPS)
     THEN /\ df' = NormalizeKeys(csv)
          /\ pc' = "chapters"
     ELSE /\ df' = df
          /\ pc' = "crashed"
  /\ UNCHANGED <<appvars, script, csv, boundaries, aggregates, files>>

\* Step 2.  The shapefile is kept when it exists, reads and is not empty.
LoadChapters ==
  /\ script = "levels" /\ pc = "chapters"
  /\ \E src \in ChapterSources :
       chapters_gdf' = IF src.present /\ src.values # {} THEN src ELSE NoChapters
  /\ pc' = "counties"
  /\ UNCHANGED <<appvars, script, csv, df, counties_gdf, zips_gdf, zip_try, zip_log,
                 aggregates, files>>

\* counties_gdf['FIPS'] = counties_gdf['STATEFP'] + counties_gdf['COUNTYFP']
CountyFrame(src) ==
  [present |-> TRUE, zip_code |-> FALSE, keys |-> {c[1] \o c[2] : c \in src}]

\* Step 3 without its try/except: a failed download ends the script.
DownloadCountiesFailStops ==
  /\ script = "levels" /\ pc = "counties"
  /\ \/ counties_gdf' = NoGdf /\ pc' = "crashed" /\ zip_try' = zip_try
     \/ /\ \E src \in CountySources : counties_gdf' = CountyFrame(src)
        /\ pc' = "zips"
        /\ zip_try' = 1
  /\ UNCHANGED <<appvars, script, csv, df, chapters_gdf, zips_gdf, zip_log, aggregates, files>>

\* Step 3.  Any exception leaves counties_gdf = None.  Step 4 follows and
\* starts its loop at the first source.
DownloadCounties ==
  /\ script = "levels" /\ pc = "counties"
  /\ \/ counties_gdf' = NoGdf
     \/ \E src \in CountySources : counties_gdf' = CountyFrame(src)
  /\ pc' = "zips"
  /\ zip_try' = 1
  /\ UNCHANGED <<appvars, script, csv, df, chapters_gdf, zips_gdf, zip_log, aggregates, files>>

\* One pass of the loop over zip_urls on source src: zips_gdf after it, and
\* the loop at the next source, or left (break, or the list is exhausted).
ZipLoopPass(src, key_columns, after) ==
  LET r == TryZipSource(zips_gdf, src, key_columns)
  IN /\ zips_gdf' = r.gdf
     /\ IF r.found \/ zip_try = NumZipUrls
        THEN zip_try' = 0 /\ pc' = after
        ELSE zip_try' = zip_try + 1 /\ pc' = pc

\* Step 4, one pass.
DownloadZips ==
  /\ script = "levels" /\ pc = "zips"
  /\ \E src \in ZipSources : ZipLoopPass(src, ZipKeyColumnsLevels, "level1")
  /\ UNCHANGED <<appvars, script, csv, df, chapters_gdf, counties_gdf, zip_log, aggregates, files>>

\* The join key of a boundary that is named by its key, and its polygon.
Identity(keys) == [k \in keys |-> k]
Cell1(keys) == [k \in keys |-> {k}]

\* The features of biomed_zip_codes.geojson when ZIP boundaries are there:
\* zips_gdf.merge(df, left_on='ZIP_CODE', right_on='Zip', how='inner').
ZipFeatures(gdf, t) ==
  JoinFeatures(gdf.keys, Identity(gdf.keys), Cell1(gdf.keys), t, N_Zip, t.columns)

\* with open(file, 'w') as f: json.dump(..., f, indent=2).  The file is opened
\* for writing in place and filled piece by piece: the write comes to its end
\* and the script goes on, or the script ends during it (it is killed by the
\* timeout of the caller, the disk is full) and the file stays as it is.
WriteFile(l, fs, next) ==
  \/ /\ files' = [files EXCEPT ![l] = WrittenFile(fs)]
     /\ pc' = next
  \/ /\ files' = [files EXCEPT ![l] = TruncatedFile(fs)]
     /\ pc' = "interrupted"

\* LEVEL 1.  Without ZIP boundaries the level is skipped: nothing is written.
Level1Zip ==
  /\ script = "levels" /\ pc = "level1"
  /\ IF ZipGeometryAvailable(zips_gdf)
     THEN WriteFile("zip", ZipFeatures(zips_gdf, df), "level2")
     ELSE files' = files /\ pc' = "level2"
  /\ UNCHANGED <<appvars, script, csv, df, boundaries, aggregates>>

CountyFirstCols ==
  <<N_County, N_State, N_Chapter, N_Region, N_Division, N_ECODE, N_RCODE, N_DCODE>>

\* county_agg = df.groupby('FIPS').agg({...}).reset_index()
CountyAgg(t) == GroupAgg(t, N_FIPS, CountyFirstCols, TotalCols(t))

\* The county file of a left join: a record without boundary is kept, with
\* geometry null.
CountyFeaturesLeftJoin(gdf, agg) ==
  IF gdf.present
  THEN [r \in 1..Len(agg.rows) |->
          [properties |-> PropsToJson(agg, agg.rows[r], agg.columns),
           geometry |-> IF Cell(agg, agg.rows[r], N_FIPS) \in gdf.keys
                        THEN {Cell(agg, agg.rows[r], N_FIPS)} ELSE NullGeometry]]
  ELSE NoGeometryFeatures(agg)

\* The features of biomed_counties.geojson.
CountyFeatures(gdf, agg) ==
  IF gdf.present
  THEN JoinFeatures(gdf.keys, Identity(gdf.keys), Cell1(gdf.keys), agg, N_FIPS, agg.columns)
  ELSE NoGeometryFeatures(agg)

\* LEVEL 2.  agg raises KeyError when a column it names is not in the table.
Level2County ==
  /\ script = "levels" /\ pc = "level2"
  /\ IF AggRaises(df, N_FIPS, CountyFirstCols)
     THEN /\ pc' = "crashed"
          /\ UNCHANGED <<county_agg, files>>
     ELSE /\ county_agg' = CountyAgg(df)
          /\ WriteFile("county", CountyFeatures(counties_gdf, county_agg'), "level3")
  /\ UNCHANGED <<appvars, script, csv, df, boundaries, chapter_agg, region_agg, division_agg>>

\* t[name] = values as a new last column.
AddCol(t, name, values) ==
  [columns |-> Append(t.columns, name),
   rows |-> [r \in 1..Len(t.rows) |-> Append(t.rows[r], values[r])]]

\* chapter_agg = df.groupby('Chapter').agg({...}).reset_index()
ChapterAgg(t) ==
  GroupAgg(t, N_Chapter, <<N_Region, N_Division, N_RCODE, N_DCODE>>,
           SelectSeq(TotalCols(t), LAMBDA c : Contains(c, N_Chapter)
                        \/ Contains(c, N_Region) \/ Contains(c, N_Division)))

\* region_agg = df.groupby('Region').agg({...}).reset_index()
RegionAgg(t) ==
  GroupAgg(t, N_Region, <<N_Division, N_RCODE, N_DCODE>>,
           SelectSeq(TotalCols(t), LAMBDA c : Contains(c, N_Region)
                        \/ Contains(c, N_Division)))

\* division_agg = df.groupby('Division').agg({...}).reset_index()
DivisionAgg(t) ==
  GroupAgg(t, N_Division, <<N_DCODE>>,
           SelectSeq(TotalCols(t), LAMBDA c : Contains(c, N_Division)))

\* if col.lower() in ['chapter', 'name', 'chapter_name', 'chapter_nam']
ChapterNameColumns ==
  {Lower(N_Chapter), <<"n", "a", "m", "e">>,
   Lower(N_Chapter) \o <<"_", "n", "a", "m", "e">>,
   Lower(N_Chapter) \o <<"_", "n", "a", "m">>}

HasChapterNameCol(gdf) ==
  \E i \in 1..Len(gdf.columns) : Lower(gdf.columns[i]) \in ChapterNameColumns

\* .astype(str).str.strip().str.upper()
ChapterMatch(v) == Upper(Strip(AsStr(v)))

\* The polygon of the shapefile with attribute value v.
ShapeGeometry(v) == {<<"#">> \o v}

\* chapter_agg after the shapefile branch: it gains the chapter_match column
\* when the shapefile has a name column.
ChapterAggMatched(gdf, agg) ==
  IF gdf.present /\ gdf.values # {} /\ HasChapterNameCol(gdf)
  THEN AddCol(agg, N_chapter_match,
              [r \in 1..Len(agg.rows) |-> ChapterMatch(Cell(agg, agg.rows[r], N_Chapter))])
  ELSE agg

\* chapters_gdf.merge(chapter_agg, on='chapter_match', how='inner'), without
\* the chapter_match column; empty when the branch is not taken.
ShapefileFeatures(gdf, agg) ==
  IF gdf.present /\ gdf.values # {} /\ HasChapterNameCol(gdf)
  THEN JoinFeatures(gdf.values, [v \in gdf.values |-> ChapterMatch(v)],
                    [v \in gdf.values |-> ShapeGeometry(v)], agg, N_chapter_match,
                    SelectSeq(agg.columns, LAMBDA c : c # N_chapter_match))
  ELSE <<>>

\* counties_gdf.merge(df[['FIPS', key]].drop_duplicates(), on='FIPS',
\* how='inner'): the (FIPS, key) pairs of the counties that have a boundary.
CountiesWith(gdf, t, key) ==
  {p \in {<<Cell(t, t.rows[r], N_FIPS), Cell(t, t.rows[r], key)>> : r \in 1..Len(t.rows)} :
     p[1] \in gdf.keys}

\* A dissolve that keeps the polygon of the first county of each group
\* instead of the union.
DissolveFeaturesFirstCounty(gdf, t, key, agg) ==
  LET with == CountiesWith(gdf, t, key)
      groups == {p[2] : p \in with} \ {NaN, None}
      geom == [g \in groups |-> {SortedSeq({p[1] : p \in {q \in with : q[2] = g}})[1]}]
  IN JoinFeatures(groups, Identity(groups), geom, agg, key, agg.columns)

\* counties_with.dissolve(by=key, aggfunc='first').reset_index()
\*   .merge(agg, on=key, how='inner'): one polygon per key that is not missing,
\* the union of the county polygons with that key.
DissolveFeatures(gdf, t, key, agg) ==
  LET with == CountiesWith(gdf, t, key)
      groups == {p[2] : p \in with} \ {NaN, None}
      geom == [g \in groups |-> {p[1] : p \in {q \in with : q[2] = g}}]
  IN JoinFeatures(groups, Identity(groups), geom, agg, key, agg.columns)

\* The branch 'dissolve counties' is taken: county boundaries are there and
\* at least one of them joins a row of the table.
CanDissolve(gdf, t, key) == gdf.present /\ CountiesWith(gdf, t, key) # {}

\* The features of biomed_chapters.geojson; agg is chapter_agg after the
\* shapefile branch.
ChapterFeatures(chapters, counties, t, agg) ==
  IF ShapefileFeatures(chapters, agg) # <<>> THEN ShapefileFeatures(chapters, agg)
  ELSE IF CanDissolve(counties, t, N_Chapter)
    THEN DissolveFeatures(counties, t, N_Chapter, agg)
    ELSE NoGeometryFeatures(agg)

\* The features of biomed_regions.geojson and biomed_divisions.geojson.
DissolvedLevelFeatures(counties, t, key, agg) ==
  IF CanDissolve(counties, t, key)
  THEN DissolveFeatures(counties, t, key, agg)
  ELSE NoGeometryFeatures(agg)

\* LEVEL 3.
Level3Chapter ==
  /\ script = "levels" /\ pc = "level3"
  /\ chapter_agg' = ChapterAggMatched(chapters_gdf, ChapterAgg(df))
  /\ WriteFile("chapter", ChapterFeatures(chapters_gdf, counties_gdf, df, chapter_agg'),
               "level4")
  /\ UNCHANGED <<appvars, script, csv, df, boundaries, county_agg, region_agg, division_agg>>

\* LEVEL 4.
Level4Region ==
  /\ script = "levels" /\ pc = "level4"
  /\ region_agg' = RegionAgg(df)
  /\ WriteFile("region", DissolvedLevelFeatures(counties_gdf, df, N_Region, region_agg'),
               "level5")
  /\ UNCHANGED <<appvars, script, csv, df, boundaries, county_agg, chapter_agg, division_agg>>

\* LEVEL 5, and the end of the script.
Level5Division ==
  /\ script = "levels" /\ pc = "level5"
  /\ division_agg' = DivisionAgg(df)
  /\ WriteFile("division",
               DissolvedLevelFeatures(counties_gdf, df, N_Division, division_agg'), "done")
  /\ UNCHANGED <<appvars, script, csv, df, boundaries, county_agg, chapter_agg, region_agg>>

\* ---------------------------------------------------- column_detector.py

\* str.replace(old, new) for one character.
ReplaceChar(s, old, new) == [i \in 1..Len(s) |-> IF s[i] = old THEN new ELSE s[i]]

\* normalize_column_name: strip, lower, '_' and '-' to blanks.
normalize_column_name(col) ==
  ReplaceChar(ReplaceChar(Lower(Strip(col)), "_", " "), "-", " ")

zip_patterns ==
  <<<<"z", "i", "p">>,
    <<"z", "i", "p", " ", "c", "o", "d", "e">>,
    <<"z", "i", "p", "c", "o", "d", "e">>,
    <<"z", "c", "t", "a">>,
    <<"z", "c", "t", "a", "5">>,
    <<"p", "o", "s", "t", "a", "l", " ", "c", "o", "d", "e">>,
    <<"p", "o", "s", "t", "a", "l", "c", "o", "d", "e">>>>

fips_patterns ==
  <<<<"f", "i", "p", "s">>,
    <<"f", "i", "p", "s", " ", "c", "o", "d", "e">>,
    <<"f", "i", "p", "s", "c", "o", "d", "e">>,
    <<"g", "e", "o", "i", "d">>,
    <<"c", "o", "u", "n", "t", "y", " ", "f", "i", "p", "s">>,
    <<"c", "o", "u", "n", "t", "y", "f", "i", "p", "s">>>>

county_patterns ==
  <<<<"c", "o", "u", "n", "t", "y">>,
    <<"c", "o", "u", "n", "t", "y", " ", "n", "a", "m", "e">>,
    <<"c", "o", "u", "n", "t", "y", "n", "a", "m", "e">>,
    <<"c", "o", "u", "n", "t", "y", "_", "n", "a", "m", "e">>,
    <<"x", "c", "o", "u", "n", "t", "y">>>>

chapter_patterns ==
  <<<<"c", "h", "a", "p", "t", "e", "r">>,
    <<"c", "h", "a", "p", "t", "e", "r", " ", "n", "a", "m", "e">>,
    <<"c", "h", "a", "p", "t", "e", "r", "n", "a", "m", "e">>,
    <<"c", "h", "a", "p", "t", "e", "r", "_", "n", "a", "m", "e">>>>

region_patterns ==
  <<<<"r", "e", "g", "i", "o", "n">>,
    <<"r", "e", "g", "i", "o", "n", " ", "n", "a", "m", "e">>,
    <<"r", "e", "g", "i", "o", "n", "n", "a", "m", "e">>,
    <<"r", "e", "g", "i", "o", "n", "_", "n", "a", "m", "e">>>>

division_patterns ==
  <<<<"d", "i", "v", "i", "s", "i", "o", "n">>,
    <<"d", "i", "v", "i", "s", "i", "o", "n", " ", "n", "a", "m", "e">>,
    <<"d", "i", "v", "i", "s", "i", "o", "n", "n", "a", "m", "e">>,
    <<"d", "i", "v", "i", "s", "i", "o", "n", "_", "n", "a", "m", "e">>>>

ecode_patterns ==
  <<<<"e", "c", "o", "d", "e">>,
    <<"e", " ", "c", "o", "d", "e">>,
    <<"e", "_", "c", "o", "d", "e">>,
    <<"c", "h", "a", "p", "t", "e", "r", " ", "c", "o", "d", "e">>,
    <<"c", "h", "a", "p", "t", "e", "r", "c", "o", "d", "e">>,
    <<"c", "h", "a", "p", "t", "e", "r", "_", "c", "o", "d", "e">>>>

rcode_patterns ==
  <<<<"r", "c", "o", "d", "e">>,
    <<"r", " ", "c", "o", "d", "e">>,
    <<"r", "_", "c", "o", "d", "e">>,
    <<"r", "e", "g", "i", "o", "n", " ", "c", "o", "d", "e">>,
    <<"r", "e", "g", "i", "o", "n", "c", "o", "d", "e">>,
    <<"r", "e", "g", "i", "o", "n", "_", "c", "o", "d", "e">>>>

dcode_patterns ==
  <<<<"d", "c", "o", "d", "e">>,
    <<"d", " ", "c", "o", "d", "e">>,
    <<"d", "_", "c", "o", "d", "e">>,
    <<"d", "i", "v", "i", "s", "i", "o", "n", " ", "c", "o", "d", "e">>,
    <<"d", "i", "v", "i", "s", "i", "o", "n", "c", "o", "d", "e">>,
    <<"d", "i", "v", "i", "s", "i", "o", "n", "_", "c", "o", "d", "e">>>>

state_patterns ==
  <<<<"s", "t", "a", "t", "e">>,
    <<"s", "t", "a", "t", "e", " ", "n", "a", "m", "e">>,
    <<"s", "t", "a", "t", "e", "n", "a", "m", "e">>,
    <<"s", "t", "a", "t", "e", "_", "n", "a", "m", "e">>,
    <<"s", "t">>,
    <<"s", "t", "a", "t", "e", " ", "c", "o", "d", "e">>,
    <<"s", "t", "a", "t", "e", "c", "o", "d", "e">>>>

\* The roles in the order detect_columns looks for them, each with its
\* standard name and its patterns.
Roles ==
  <<[name |-> N_Zip, patterns |-> zip_patterns],
    [name |-> N_FIPS, patterns |-> fips_patterns],
    [name |-> N_County, patterns |-> county_patterns],
    [name |-> N_Chapter, patterns |-> chapter_patterns],
    [name |-> N_Region, patterns |-> region_patterns],
    [name |-> N_Division, patterns |-> division_patterns],
    [name |-> N_ECODE, patterns |-> ecode_patterns],
    [name |-> N_RCODE, patterns |-> rcode_patterns],
    [name |-> N_DCODE, patterns |-> dcode_patterns],
    [name |-> N_State, patterns |-> state_patterns]>>

\* normalized_cols = {normalize_column_name(col): col for col in df.columns}:
\* of the columns with one normalized name, the last one stays.
NormalizedCols(columns) ==
  [n \in {normalize_column_name(columns[i]) : i \in 1..Len(columns)} |->
     columns[CHOOSE i \in 1..Len(columns) :
               /\ normalize_column_name(columns[i]) = n
               /\ \A j \in (i + 1)..Len(columns) : normalize_column_name(columns[j]) # n]]

\* The first pattern of the list that is a normalized column name, as a
\* position in the list; 0 when there is none.
FirstPattern(patterns, normalized) ==
  IF \E i \in 1..Len(patterns) : patterns[i] \in DOMAIN normalized
  THEN CHOOSE i \in 1..Len(patterns) :
         /\ patterns[i] \in DOMAIN normalized
         /\ \A j \in 1..(i - 1) : patterns[j] \notin DOMAIN normalized
  ELSE 0

\* detect_columns(df): standard name -> actual column, for the roles found.
detect_columns(columns) ==
  LET normalized == NormalizedCols(columns)
      found == {r \in 1..Len(Roles) : FirstPattern(Roles[r].patterns, normalized) # 0}
  IN [name \in {Roles[r].name : r \in found} |->
        LET r == CHOOSE q \in found : Roles[q].name = name
        IN normalized[Roles[r].patterns[FirstPattern(Roles[r].patterns, normalized)]]]

required_cols == <<N_Zip, N_FIPS, N_County, N_Chapter, N_Region, N_Division>>

\* df_std.rename(columns={v: k for k, v in detected_cols.items()})
RenameColumns(t, detected) ==
  [t EXCEPT !.columns =
     [i \in 1..Len(t.columns) |->
        IF \E k \in DOMAIN detected : detected[k] = t.columns[i]
        THEN CHOOSE k \in DOMAIN detected : detected[k] = t.columns[i]
        ELSE t.columns[i]]]

\* for col in required_cols: if col not in df_std.columns: df_std[col] = None
RECURSIVE EnsureColumns(_, _)
EnsureColumns(t, names) ==
  IF names = <<>> THEN t
  ELSE EnsureColumns(IF HasCol(t, Head(names)) THEN t
                     ELSE AddCol(t, Head(names), [r \in 1..Len(t.rows) |-> None]),
                     Tail(names))

\* standardize_dataframe(df, detected_cols)
standardize_dataframe(t, detected) ==
  LET ensured == EnsureColumns(RenameColumns(t, detected), required_cols)
  IN NormalizeKeys(ensured)

\* The number of columns of the table with the given name.
Count(t, name) == Cardinality({i \in 1..Len(t.columns) : t.columns[i] = name})

\* standardize_dataframe raises: with two columns named Zip (or FIPS) after
\* the renaming, df_std['Zip'] is a DataFrame, which has no .str
\* (AttributeError).
StandardizeRaises(t, detected) ==
  LET renamed == RenameColumns(t, detected)
  IN Count(renamed, N_Zip) > 1 \/ Count(renamed, N_FIPS) > 1

\* ---------------------------------------------- column_detector.py alone

N_ZIP == <<"Z", "I", "P">>
N_ZipCode == <<"Z", "i", "p", "C", "o", "d", "e">>
N_zcta5 == <<"z", "c", "t", "a", "5">>
N_Notes == <<"N", "o", "t", "e", "s">>

\* Every ordering of the columns.
Orderings(columns) ==
  {p \in [1..Len(columns) -> Range(columns)] :
     \A i, j \in 1..Len(columns) : p[i] = p[j] => i = j}

\* The headers given to the detector: the standard names with another
\* column, two accepted names of one role, two columns whose names differ in
\* case only, no name of any role, an accepted name next to a standard one;
\* each in every order.
DetectorHeaders ==
  UNION {Orderings(h) : h \in {<<N_Zip, N_FIPS, N_Notes>>,
                               <<N_ZipCode, N_zcta5, N_FIPS>>,
                               <<N_Zip, N_ZIP>>,
                               <<N_Notes>>,
                               <<N_ZIP_Code, N_County>>}}

\* The cells given to the detector: missing, short, with the '.0' of a number
\* read as float, with '.0' inside, longer than five characters, with '.0'
\* appearing once '.0' is removed, of width five, with a sign.
DetectorValues ==
  {NaN, <<"1">>, <<"2", ".", "0">>, <<"1", "0", ".", "0", "5">>,
   <<"1", "2", "3", "4", "5", "6">>, <<".", ".", "0", "0">>,
   <<"0", "0", "5", "0", "1">>, <<"-", "1">>}

\* The table with the given columns in which every cell of row r is vals[r].
DetectorTable(h, vals) ==
  [columns |-> h,
   rows |-> [r \in 1..Len(vals) |-> [c \in 1..Len(h) |-> vals[r]]]]

DetectorTables ==
  {DetectorTable(h, vals) :
     h \in DetectorHeaders,
     vals \in UNION {[1..n -> DetectorValues] : n \in 0..MaxRows}}

InitDetector ==
  /\ script = "detector"
  /\ pc = "load"
  /\ csv \in DetectorTables
  /\ df = EmptyTable
  /\ chapters_gdf = NoChapters
  /\ counties_gdf = NoGdf
  /\ zips_gdf = NoGdf
  /\ zip_try = 0
  /\ zip_log = <<>>
  /\ county_agg = EmptyTable
  /\ chapter_agg = EmptyTable
  /\ region_agg = EmptyTable
  /\ division_agg = EmptyTable
  /\ files = [l \in Levels |-> NoFile]
  /\ AppAtStart

\* detected = detect_columns(df); df, _ = standardize_dataframe(df, detected)
Standardize ==
  /\ script = "detector" /\ pc = "load"
  /\ LET detected == detect_columns(csv.columns)
     IN IF StandardizeRaises(csv, detected)
        THEN /\ pc' = "crashed"
             /\ df' = df
        ELSE /\ pc' = "standardized"
             /\ df' = standardize_dataframe(csv, detected)
  /\ UNCHANGED <<appvars, script, csv, boundaries, aggregates, files>>

\* The same again, on the table the first call returned.
StandardizeAgain ==
  /\ script = "detector" /\ pc = "standardized"
  /\ csv' = df
  /\ LET detected == detect_columns(df.columns)
     IN IF StandardizeRaises(df, detected)
        THEN /\ pc' = "crashed again"
             /\ df' = df
        ELSE /\ pc' = "standardized again"
             /\ df' = standardize_dataframe(df, detected)
  /\ UNCHANGED <<appvars, script, boundaries, aggregates, files>>

NextDetector == Standardize \/ StandardizeAgain

SpecDetector == InitDetector /\ [][NextDetector]_vars

\* ------------------------------------------------ create_zip_geojson.py

\* Step 1: read the file, detect the columns, standardize.  Step 2 follows
\* and starts its loop at the first source.
ZipLoadCsv ==
  /\ script = "zip" /\ pc = "load"
  /\ IF StandardizeRaises(csv, detect_columns(csv.columns))
     THEN /\ df' = df
          /\ pc' = "crashed"
     ELSE /\ df' = standardize_dataframe(csv, detect_columns(csv.columns))
          /\ pc' = "zips"
  /\ zip_try' = 1
  /\ UNCHANGED <<appvars, script, csv, chapters_gdf, counties_gdf, zips_gdf, zip_log,
                 aggregates, files>>

\* Step 2, one pass of the loop over zip_urls.
ZipDownloadZips ==
  /\ script = "zip" /\ pc = "zips"
  /\ \E src \in ZipSources : ZipLoopPass(src, ZipKeyColumnsZip, "esri")
  /\ UNCHANGED <<appvars, script, csv, df, chapters_gdf, counties_gdf, zip_log, aggregates, files>>

\* df['Zip'].dropna().unique()
UniqueZips(t) == GroupKeys(t, N_Zip)

\* What the Esri service can answer: an exception (the arcgis package is not
\* installed, the query fails), or the polygons it has.
EsriAnswers ==
  {[ok |-> FALSE, covered |-> {}], [ok |-> TRUE, covered |-> {Z1}],
   [ok |-> TRUE, covered |-> {Z1, Z2}]}

\* Step 3, entered when zips_gdf is None.  The service is asked for the ZIP
\* codes of the table; an exception or an empty answer leaves zips_gdf None.
EsriQuery(t, ans) ==
  IF ans.ok /\ ans.covered \cap UniqueZips(t) # {}
  THEN [present |-> TRUE, zip_code |-> TRUE,
        keys |-> {ZFill(AsStr(k), 5) : k \in ans.covered \cap UniqueZips(t)}]
  ELSE NoGdf

\* Step 3.
ZipEsri ==
  /\ script = "zip" /\ pc = "esri"
  /\ IF zips_gdf.present
     THEN zips_gdf' = zips_gdf
     ELSE \E ans \in EsriAnswers : zips_gdf' = EsriQuery(df, ans)
  /\ pc' = "write"
  /\ UNCHANGED <<appvars, script, csv, df, chapters_gdf, counties_gdf, zip_try, zip_log,
                 aggregates, files>>

\* Step 4: the joined features, or every row without geometry.
ZipWrite ==
  /\ script = "zip" /\ pc = "write"
  /\ WriteFile("zip",
               IF ZipGeometryAvailable(zips_gdf) THEN ZipFeatures(zips_gdf, df)
               ELSE NoGeometryFeatures(df),
               "done")
  /\ UNCHANGED <<appvars, script, csv, df, boundaries, aggregates>>

\* ---------------------------------------------------------- specification

Next ==
  \/ LoadCsv
  \/ LoadChapters
  \/ DownloadCounties
  \/ DownloadZips
  \/ Level1Zip
  \/ Level2County
  \/ Level3Chapter
  \/ Level4Region
  \/ Level5Division
  \/ ZipLoadCsv
  \/ ZipDownloadZips
  \/ ZipEsri
  \/ ZipWrite

Spec == Init /\ [][Next]_vars

\* ------------------------------------------------ the ZIP boundary provider

\* A table of one row, loaded as the script loads it.
LoadedTable(scr, t) ==
  IF scr = "levels"
  THEN NormalizeKeys(t)
  ELSE standardize_dataframe(t, detect_columns(t.columns))

\* The scripts at the start of their ZIP boundary step.
InitProvider ==
  /\ script \in {"levels", "zip"}
  /\ pc = "zips"
  /\ csv \in UNION {Tables(FullColumns, n, {<<"1">>}, {<<<<"X">>, <<"R">>, <<"D">>>>}) :
                      n \in 1..MaxRows}
  /\ df = LoadedTable(script, csv)
  /\ chapters_gdf = NoChapters
  /\ counties_gdf = NoGdf
  /\ zips_gdf = NoGdf
  /\ zip_try = 1
  /\ zip_log = <<>>
  /\ county_agg = EmptyTable
  /\ chapter_agg = EmptyTable
  /\ region_agg = EmptyTable
  /\ division_agg = EmptyTable
  /\ files = [l \in Levels |-> NoFile]
  /\ AppAtStart

\* print(f"   Trying: {zips_url}"): the pass, with the source it met.
TryLevelsSource ==
  /\ script = "levels" /\ pc = "zips"
  /\ \E src \in ZipSources :
       /\ ZipLoopPass(src, ZipKeyColumnsLevels, "level1")
       /\ zip_log' = Append(zip_log, [url |-> zip_try, src |-> src])
  /\ UNCHANGED <<appvars, script, csv, df, chapters_gdf, counties_gdf, aggregates, files>>

TryZipScriptSource ==
  /\ script = "zip" /\ pc = "zips"
  /\ \E src \in ZipSources :
       /\ ZipLoopPass(src, ZipKeyColumnsZip, "esri")
       /\ zip_log' = Append(zip_log, [url |-> zip_try, src |-> src])
  /\ UNCHANGED <<appvars, script, csv, df, chapters_gdf, counties_gdf, aggregates, files>>

\* print("3. Trying Esri Living Atlas service..."): Step 3 of the ZIP script,
\* logged as the source after the last URL when it is entered.
TryEsri ==
  /\ script = "zip" /\ pc = "esri"
  /\ IF zips_gdf.present
     THEN zips_gdf' = zips_gdf /\ zip_log' = zip_log
     ELSE \E ans \in EsriAnswers :
            /\ zips_gdf' = EsriQuery(df, ans)
            /\ zip_log' = Append(zip_log,
                 [url |-> NumZipUrls + 1,
                  src |-> [kind |-> IF ans.ok THEN "esri" ELSE "esri_error",
                           cols |-> {}, keys |-> ans.covered]])
  /\ pc' = "write"
  /\ UNCHANGED <<appvars, script, csv, df, chapters_gdf, counties_gdf, zip_try,
                 aggregates, files>>

NextProvider == TryLevelsSource \/ TryZipScriptSource \/ TryEsri

SpecProvider == InitProvider /\ [][NextProvider]_vars

\* ------------------------------------------------------------------ app.py

\* Longest list of levels in one request.
MaxLevels == 2

\* The level identifiers as text.
LevelText(l) ==
  CASE l = "zip" -> <<"z", "i", "p">>
    [] l = "county" -> <<"c", "o", "u", "n", "t", "y">>
    [] l = "chapter" -> <<"c", "h", "a", "p", "t", "e", "r">>
    [] l = "region" -> <<"r", "e", "g", "i", "o", "n">>
    [] l = "division" -> <<"d", "i", "v", "i", "s", "i", "o", "n">>

\* expected_filenames
expected_filenames(l) ==
  CASE l = "zip" -> <<"b", "i", "o", "m", "e", "d", "_", "z", "i", "p", "_", "c", "o", "d", "e", "s", ".", "g", "e", "o", "j", "s", "o", "n">>
    [] l = "county" -> <<"b", "i", "o", "m", "e", "d", "_", "c", "o", "u", "n", "t", "i", "e", "s", ".", "g", "e", "o", "j", "s", "o", "n">>
    [] l = "chapter" -> <<"b", "i", "o", "m", "e", "d", "_", "c", "h", "a", "p", "t", "e", "r", "s", ".", "g", "e", "o", "j", "s", "o", "n">>
    [] l = "region" -> <<"b", "i", "o", "m", "e", "d", "_", "r", "e", "g", "i", "o", "n", "s", ".", "g", "e", "o", "j", "s", "o", "n">>
    [] l = "division" -> <<"b", "i", "o", "m", "e", "d", "_", "d", "i", "v", "i", "s", "i", "o", "n", "s", ".", "g", "e", "o", "j", "s", "o", "n">>

\* os.path.join of names: the text of a path.
RECURSIVE JoinText(_)
JoinText(parts) ==
  IF parts = <<>> THEN <<>>
  ELSE IF Len(parts) = 1 THEN parts[1]
  ELSE parts[1] \o <<"/">> \o JoinText(Tail(parts))

\* The names of a path given as text: done are the names read, cur the name
\* being read.
RECURSIVE SplitFrom(_, _, _)
SplitFrom(text, done, cur) ==
  IF text = <<>> THEN Append(done, cur)
  ELSE IF Head(text) = "/" THEN SplitFrom(Tail(text), Append(done, cur), <<>>)
  ELSE SplitFrom(Tail(text), done, Append(cur, Head(text)))

SplitText(text) == SplitFrom(text, <<>>, <<>>)

\* os.path.normpath on the names of a relative path: empty names and '.' go,
\* 'name/..' goes, a leading '..' stays.
RECURSIVE NormParts(_, _)
NormParts(todo, done) ==
  IF todo = <<>> THEN done
  ELSE LET c == Head(todo)
       IN IF c = <<>> \/ c = <<".">> THEN NormParts(Tail(todo), done)
          ELSE IF c = <<".", ".">> /\ done # <<>> /\ done[Len(done)] # <<".", ".">>
            THEN NormParts(Tail(todo), SubSeq(done, 1, Len(done) - 1))
            ELSE NormParts(Tail(todo), Append(done, c))

\* os.path.normpath of a relative path given as text.
normpath(text) == JoinText(NormParts(SplitText(text), <<>>))

\* os.path.abspath of a relative path in working directory wd, as text.
abspath(wd, rel) == <<"/">> \o JoinText(wd \o rel)

\* str.startswith
StartsWith(text, prefix) ==
  Len(text) >= Len(prefix) /\ SubSeq(text, 1, Len(prefix)) = prefix

\* A directory and the directories above it: what os.makedirs makes sure of.
Prefixes(path) == {SubSeq(path, 1, n) : n \in 1..Len(path)}

\* session_id = f"session_{hash(filename)}"
session_id(fn) == T_session \o fn
\* temp_dir = os.path.join(OUTPUT_FOLDER, session_id)
temp_dir(fn) == OUTPUT_FOLDER \o <<session_id(fn)>>
\* output_dir = os.path.join(temp_dir, 'geojson_output')
output_dir(fn) == temp_dir(fn) \o <<T_geojson_output>>

\* if level == 'zip': create_zip_geojson.py, else create_geojson_levels.py
ScriptFor(l) == IF l = "zip" THEN "zip" ELSE "levels"

\* The levels whose file a script writes, in the order it writes them.
WriteOrder(scr) ==
  IF scr = "zip" THEN <<"zip">> ELSE <<"zip", "county", "chapter", "region", "division">>

\* from column_detector import ...: the modules of the repository a script
\* imports.
Imports(scr) == IF scr = "zip" THEN {"column_detector.py"} ELSE {}

\* The files process_file puts into the session directory: the CSV and the
\* two scripts.
SessionFiles == {"csv", "create_geojson_levels.py", "create_zip_geojson.py"}

\* DATA_DIR of a script started as 'python3 <script>' in directory work:
\* Path(__file__).parent for the level script, Path(__file__).parent.parent
\* for the ZIP script, which is work itself when __file__ is the bare file
\* name and the directory above it when __file__ is absolute.
DataDirs(scr, work) ==
  IF scr = "zip" THEN {work, SubSeq(work, 1, Len(work) - 1)} ELSE {work}

\* What one run of 'python3 <script>' in directory work can come to, have
\* being the copies process_file made there: it ends with status 0, ends with
\* another status, or is still running after the timeout; written are the
\* files it has put into its OUTPUT_DIR by then, missing the files it did not
\* find.  Without the script in work python3 ends at once; the ZIP script ends
\* at its import of column_detector, which is not in the session directory.
\* The level script writes its files in order and leaves out the ZIP file
\* when it has no ZIP boundaries; a run that ends with status 0 has written
\* all the others, a run that ends with a traceback ended before the county
\* file.
ScriptRuns(scr, work, have) ==
  LET order == WriteOrder(scr)
      Prefix(n, z) == {order[i] : i \in 1..n} \ (IF z THEN {} ELSE {"zip"})
      Run(k, w) == [kind |-> k, written |-> w, missing |-> {}]
  IN IF have = {}
     THEN {[kind |-> "nonzero", written |-> {}, missing |-> {"script"}]}
     ELSE IF ~(Imports(scr) \subseteq SessionFiles)
     THEN {[kind |-> "nonzero", written |-> {},
            missing |-> (Imports(scr) \ SessionFiles)
                          \cup (IF d = work THEN {} ELSE {"csv"})] :
             d \in DataDirs(scr, work)}
     ELSE {Run("ok", Prefix(5, z)) : z \in BOOLEAN}
          \cup {Run("nonzero", Prefix(1, z)) : z \in BOOLEAN}
          \cup {Run("timeout", Prefix(n, z)) : n \in 1..5, z \in BOOLEAN}

\* The result process_level returns for the file of level f; path is
\* os.path.relpath(filepath, OUTPUT_FOLDER).
FileEntry(l, f, fn) ==
  [level |-> l, filename |-> expected_filenames(f),
   path |-> JoinText(Tail(output_dir(fn)) \o <<expected_filenames(f)>>)]

\* process_level(level, ...) after a run, found being the levels with a file
\* in the directory it inspects: the results it can return; none when it
\* raises.  When the expected file is missing, a file whose path contains the
\* level is taken, else the first file glob lists, which can be any of them.
ProcessLevelResults(l, run, found, fn) ==
  LET Path(f) == Lower(JoinText(output_dir(fn) \o <<expected_filenames(f)>>))
  IN IF run.kind # "ok" THEN {}
     ELSE IF l \in found THEN {FileEntry(l, l, fn)}
     ELSE IF \E f \in found : Contains(Path(f), LevelText(l))
       THEN {FileEntry(l, f, fn) : f \in {g \in found : Contains(Path(g), LevelText(l))}}
       ELSE {FileEntry(l, f, fn) : f \in found}

\* The message of the exception process_level raises.
ProcessLevelError(l, run) ==
  CASE run.kind = "nonzero" -> "Script failed"
    [] run.kind = "timeout" -> "timed out"
    [] OTHER -> "No GeoJSON file was generated"

\* The requests: at most MaxLevels levels, each named once, in any order.
LevelLists ==
  {ls \in UNION {[1..n -> Levels] : n \in 0..MaxLevels} :
     \A i, j \in 1..Len(ls) : ls[i] = ls[j] => i = j}

InitApp ==
  /\ script = "app"
  /\ pc = "request"
  /\ csv = EmptyTable
  /\ df = EmptyTable
  /\ chapters_gdf = NoChapters
  /\ counties_gdf = NoGdf
  /\ zips_gdf = NoGdf
  /\ zip_try = 0
  /\ zip_log = <<>>
  /\ county_agg = EmptyTable
  /\ chapter_agg = EmptyTable
  /\ region_agg = EmptyTable
  /\ division_agg = EmptyTable
  /\ files = [l \in Levels |-> NoFile]
  /\ AppAtStart

scriptvars == <<script, csv, df, chapters_gdf, counties_gdf, zips_gdf, zip_try,
                zip_log, aggregates, files>>

\* The files a run in directory work leaves on disk: it writes into
\* <work>/geojson_output, over what is there, from the CSV copied to work.
FilesAfterRun(disk, run, work, have) ==
  LET wdir == work \o <<T_geojson_output>>
  IN {f \in disk : ~(f.dir = wdir /\ f.level \in run.written)}
       \cup {[dir |-> wdir, level |-> l, from |-> c.csv] : l \in run.written, c \in have}

\* The levels with a file in directory dir.
LevelsIn(disk, dir) == {f.level : f \in {g \in disk : g.dir = dir}}

\* A process_level that changes back only when it returns a result: the
\* os.chdir(original_dir) at the end of the try block, not in a finally.
RestoredDirOnReturn(original_dir, work, raised) ==
  IF raised THEN work ELSE original_dir

\* The working directory process_level leaves, work being the directory it
\* changed to: 'finally: os.chdir(original_dir)' runs whether the try block
\* returned or raised.
RestoredDir(original_dir, work, raised) == original_dir

\* process_file up to its loop, for a new request (what was seen of the
\* request before is forgotten): the request is refused when it names no
\* level or the upload is not found; else the session directory of the file
\* name is made and the CSV and the scripts are copied into it.  All paths
\* are relative: they are resolved against the working directory.
ProcessFile ==
  /\ script = "app" /\ pc \in {"request", "responded"}
  /\ \E ls \in LevelLists :
       /\ filename' = Uploaded
       /\ levels' = ls
       /\ generated_files' = <<>>
       /\ last_run' = NoRun
       /\ download' = NoDownload
       /\ IF ls = <<>>
          THEN /\ response' = [status |-> 400, files |-> <<>>, error |-> "No levels selected"]
               /\ level_i' = 0
               /\ pc' = "responded"
               /\ UNCHANGED <<dirs, copied>>
          ELSE IF cwd \o UPLOAD_FOLDER \notin dirs
          THEN /\ response' = [status |-> 404, files |-> <<>>, error |-> "File not found"]
               /\ level_i' = 0
               /\ pc' = "responded"
               /\ UNCHANGED <<dirs, copied>>
          ELSE /\ response' = NoResponse
               /\ level_i' = 1
               /\ pc' = "processing"
               /\ dirs' = dirs \cup Prefixes(cwd \o temp_dir(Uploaded))
               /\ copied' = copied \cup {[dir |-> cwd \o temp_dir(Uploaded), csv |-> Uploaded]}
  /\ UNCHANGED <<scriptvars, out_dir, cwd, threads>>

\* One pass of 'for level in levels', the whole of process_level: it makes
\* output_dir, changes to temp_dir, runs the script there, looks for the file
\* under output_dir, and changes back (finally).  output_dir and temp_dir are
\* relative paths: after os.chdir(temp_dir) they are resolved against temp_dir.
\* When process_level raises, process_file answers 500 with the message only;
\* after the last level it answers with the results collected.
ProcessLevel ==
  /\ script = "app" /\ pc = "processing"
  /\ LET l == levels[level_i]
         original_dir == cwd
         made == dirs \cup Prefixes(cwd \o output_dir(filename))
         work == cwd \o temp_dir(filename)
         have == {c \in copied : c.dir = work}
     IN \E run \in ScriptRuns(ScriptFor(l), work, have) :
          LET disk == FilesAfterRun(out_dir, run, work, have)
              found == LevelsIn(disk, work \o output_dir(filename))
              results == ProcessLevelResults(l, run, found, filename)
          IN /\ out_dir' = disk
             /\ dirs' = made
             /\ last_run' = run
             /\ cwd' = RestoredDir(original_dir, work, results = {})
             /\ IF results = {}
                THEN /\ response' = [status |-> 500, files |-> <<>>,
                                     error |-> ProcessLevelError(l, run)]
                     /\ pc' = "responded"
                     /\ UNCHANGED <<generated_files, level_i>>
                ELSE \E result \in results :
                       /\ generated_files' = Append(generated_files, result)
                       /\ level_i' = level_i + 1
                       /\ IF level_i = Len(levels)
                          THEN /\ response' = [status |-> 200, files |-> generated_files',
                                               error |-> ""]
                               /\ pc' = "responded"
                          ELSE /\ response' = response
                               /\ pc' = pc
  /\ UNCHANGED <<scriptvars, levels, filename, copied, download, threads>>

\* The files on disk, each as the names that lead to it.
DiskFiles(disk) == {f.dir \o <<expected_filenames(f.level)>> : f \in disk}

\* download_file(filepath) in working directory wd.
download_file(filepath, wd, disk) ==
  LET full_path == normpath(JoinText(OUTPUT_FOLDER) \o <<"/">> \o filepath)
      resolved == wd \o SplitText(full_path)
  IN IF ~StartsWith(full_path, abspath(wd, OUTPUT_FOLDER))
     THEN [status |-> 400, path |-> filepath, file |-> <<>>]
     ELSE IF resolved \notin DiskFiles(disk)
     THEN [status |-> 404, path |-> filepath, file |-> <<>>]
     ELSE [status |-> 200, path |-> filepath, file |-> resolved]

\* The paths asked for: the path process_level gives for the file of each
\* level of the upload, and two paths that lead out of the output folder.
DownloadPaths ==
  {FileEntry(l, l, Uploaded).path : l \in Levels}
    \cup {<<".", ".", "/", "a", "p", "p", ".", "p", "y">>,
          session_id(<<"a">>) \o <<"/", ".", ".", "/", ".", ".", "/">> \o T_uploads
            \o <<"/", "a">>}

\* GET /api/download/<path:filepath>
DownloadFile ==
  /\ script = "app" /\ pc = "responded"
  /\ \E path \in DownloadPaths : download' = download_file(path, cwd, out_dir)
  /\ UNCHANGED <<scriptvars, pc, levels, level_i, generated_files, out_dir, response,
                 filename, cwd, dirs, copied, last_run, threads>>

NextApp == ProcessFile \/ ProcessLevel \/ DownloadFile

SpecApp == InitApp /\ [][NextApp]_vars

\* ------------------------------------------- app.py, two requests at a time

\* The server handles each request in a thread of its own (app.run, the
\* development server); the working directory belongs to the process, the
\* locals of process_file and process_level to the thread.  Thread 1 is asked
\* for upload a, thread 2 for upload b, each for one level.
FilenameOf(t) == IF t = 1 THEN <<"a">> ELSE <<"b">>

InitConc ==
  /\ script = "threads"
  /\ pc = "serving"
  /\ csv = EmptyTable
  /\ df = EmptyTable
  /\ chapters_gdf = NoChapters
  /\ counties_gdf = NoGdf
  /\ zips_gdf = NoGdf
  /\ zip_try = 0
  /\ zip_log = <<>>
  /\ county_agg = EmptyTable
  /\ chapter_agg = EmptyTable
  /\ region_agg = EmptyTable
  /\ division_agg = EmptyTable
  /\ files = [l \in Levels |-> NoFile]
  /\ AppAtStart

seqvars == <<scriptvars, pc, county_agg, chapter_agg, region_agg, division_agg,
             levels, level_i, generated_files, response, filename, last_run, download>>

\* process_file of thread t up to its loop: 404 when uploads/<filename> is
\* not found from the working directory, else the session directory is made
\* and filled, all relative to the working directory.
ThreadProcessFile(t) ==
  /\ script = "threads" /\ threads[t].pc = "idle"
  /\ \E l \in Levels :
       LET fn == FilenameOf(t)
           me == [threads[t] EXCEPT !.filename = fn, !.level = l]
       IN IF cwd \o UPLOAD_FOLDER \notin dirs
          THEN /\ threads' = [threads EXCEPT ![t] = [me EXCEPT !.pc = "done", !.status = 404]]
               /\ UNCHANGED <<dirs, copied>>
          ELSE /\ threads' = [threads EXCEPT ![t] = [me EXCEPT !.pc = "prepared"]]
               /\ dirs' = dirs \cup Prefixes(cwd \o temp_dir(fn))
               /\ copied' = copied \cup {[dir |-> cwd \o temp_dir(fn), csv |-> fn]}
  /\ UNCHANGED <<seqvars, out_dir, cwd>>

\* process_level of thread t up to os.chdir(temp_dir): output_dir is made,
\* the working directory is remembered and changed, for every thread.
ThreadChdir(t) ==
  /\ script = "threads" /\ threads[t].pc = "prepared"
  /\ dirs' = dirs \cup Prefixes(cwd \o output_dir(threads[t].filename))
  /\ threads' = [threads EXCEPT ![t].pc = "entered", ![t].original_dir = cwd]
  /\ cwd' = cwd \o temp_dir(threads[t].filename)
  /\ UNCHANGED <<seqvars, out_dir, copied>>

\* subprocess.run of thread t: the script is looked up and run in the working
\* directory the process has at that moment.
ThreadRun(t) ==
  /\ script = "threads" /\ threads[t].pc = "entered"
  /\ LET have == {c \in copied : c.dir = cwd}
     IN \E run \in ScriptRuns(ScriptFor(threads[t].level), cwd, have) :
          /\ out_dir' = FilesAfterRun(out_dir, run, cwd, have)
          /\ threads' = [threads EXCEPT ![t].pc = "ran", ![t].ran_in = cwd, ![t].run = run]
  /\ UNCHANGED <<seqvars, cwd, dirs, copied>>

\* The rest of process_level of thread t: the file is looked for under
\* output_dir from the working directory of that moment, and the finally
\* changes the working directory to the one remembered.
ThreadReturn(t) ==
  /\ script = "threads" /\ threads[t].pc = "ran"
  /\ LET me == threads[t]
         inspected == cwd \o output_dir(me.filename)
         found == LevelsIn(out_dir, inspected)
         results == ProcessLevelResults(me.level, me.run, found, me.filename)
     IN IF results = {}
        THEN threads' = [threads EXCEPT ![t].pc = "done", ![t].status = 500]
        ELSE \E result \in results :
               threads' = [threads EXCEPT ![t].pc = "done", ![t].status = 200,
                             ![t].files = {f \in out_dir :
                                             /\ f.dir = inspected
                                             /\ expected_filenames(f.level) = result.filename}]
  /\ cwd' = RestoredDir(threads[t].original_dir, cwd,
                        ProcessLevelResults(threads[t].level, threads[t].run,
                                            LevelsIn(out_dir, cwd \o output_dir(threads[t].filename)),
                                            threads[t].filename) = {})
  /\ UNCHANGED <<seqvars, out_dir, dirs, copied>>

NextConc ==
  \E t \in Threads :
    ThreadProcessFile(t) \/ ThreadChdir(t) \/ ThreadRun(t) \/ ThreadReturn(t)

SpecConc == InitConc /\ [][NextConc]_vars

\* ------------------------------------------------------------------ claims

\* The positions of the level script after the county level, the chapter
\* level and so on were written.
AfterLevel1 == {"level2", "level3", "level4", "level5", "done"}
AfterLevel2 == {"level3", "level4", "level5", "done"}
AfterLevel3 == {"level4", "level5", "done"}

\* No row of the input has its FIPS cell missing.
NoFipsAbsent(t) ==
  /\ HasCol(t, N_FIPS)
  /\ \A r \in 1..Len(t.rows) : ~IsNA(N_FIPS, Cell(t, t.rows[r], N_FIPS))

\* C1: conservation under county aggregation.  For an input in which no row's
\* FIPS is missing, the sum of every year column over the county records
\* (group-by FIPS, before the boundary join) equals its sum over the input
\* rows.  The year cell of row i is 2^(i-1), so equal sums mean that every row
\* is counted once: none twice, none lost.
C1_Conservation ==
  (script = "levels" /\ pc \in AfterLevel2 /\ NoFipsAbsent(csv)) =>
    \A y \in Range(YearCols(csv)) :
      /\ HasCol(county_agg, y)
      /\ SumCells(county_agg, county_agg.rows, y) = SumCells(csv, csv.rows, y)

\* C1 witness: two rows of one county were aggregated into one record.
C1_Witness ==
  /\ script = "levels" /\ pc \in AfterLevel2 /\ NoFipsAbsent(csv)
  /\ Len(csv.rows) = 2 /\ Len(county_agg.rows) = 1
  /\ YearCols(csv) # <<>>

\* The row of table t contributes to exactly one record of agg: exactly one
\* record carries the row's grouping key.
ContributesOnce(t, agg, key) ==
  \A r \in 1..Len(t.rows) :
    Cardinality({a \in 1..Len(agg.rows) :
                   Cell(agg, agg.rows[a], key) = Cell(t, t.rows[r], key)}) = 1

\* C2: at each of the four aggregation levels the rows whose grouping key is
\* missing are kept as a group of their own, so that every input row
\* contributes to exactly one aggregated record at every level.
C2_AbsentKeysKept ==
  (script = "levels" /\ pc = "done") =>
    /\ ContributesOnce(df, county_agg, N_FIPS)
    /\ ContributesOnce(df, chapter_agg, N_Chapter)
    /\ ContributesOnce(df, region_agg, N_Region)
    /\ ContributesOnce(df, division_agg, N_Division)

\* C3: in a request for several levels, a level that fails gives a failure
\* for that level only: every requested level has been attempted when the
\* request is answered, and the answer carries the artifacts of the levels
\* that were generated.
C3_FailureIsolated ==
  (script = "app" /\ pc = "responded" /\ levels # <<>>) =>
    /\ level_i = Len(levels) + 1
    /\ \A i \in 1..Len(generated_files) :
         \E j \in 1..Len(response.files) : response.files[j] = generated_files[i]

\* The file was written with n features, each with geometry null.
NullGeometryFile(f, n) ==
  /\ f.exists
  /\ Len(f.features) = n
  /\ \A i \in 1..Len(f.features) : f.features[i].geometry = NullGeometry

\* C4: for every level, when no boundary geometry is to be had for it, its
\* file is still written, with one feature per raw record (zip) or per
\* aggregated record (the other levels), each with geometry null.
C4_NullGeometry ==
  /\ (script = "levels" /\ pc \in AfterLevel1 /\ ~ZipGeometryAvailable(zips_gdf)) =>
       NullGeometryFile(files["zip"], Len(df.rows))
  /\ (script = "zip" /\ pc = "done" /\ ~ZipGeometryAvailable(zips_gdf)) =>
       NullGeometryFile(files["zip"], Len(df.rows))
  /\ (script = "levels" /\ pc \in AfterLevel2 /\ ~counties_gdf.present) =>
       NullGeometryFile(files["county"], Len(county_agg.rows))
  /\ (script = "levels" /\ pc \in AfterLevel3 /\ ~counties_gdf.present
        /\ ~chapters_gdf.present) =>
       NullGeometryFile(files["chapter"], Len(chapter_agg.rows))
  /\ (script = "levels" /\ pc \in {"level5", "done"} /\ ~counties_gdf.present) =>
       NullGeometryFile(files["region"], Len(region_agg.rows))
  /\ (script = "levels" /\ pc = "done" /\ ~counties_gdf.present) =>
       NullGeometryFile(files["division"], Len(division_agg.rows))

\* The key columns the script probes.
KeyColumnsOf(scr) == IF scr = "levels" THEN ZipKeyColumnsLevels ELSE ZipKeyColumnsZip

\* The logged candidate gave geometry with a key column.
Yields(e) ==
  \/ e.src.kind = "read" /\ HasZipCol(e.src.cols, KeyColumnsOf(script))
  \/ e.src.kind = "esri" /\ e.src.keys \cap UniqueZips(df) # {}

\* The keys of the geometry the logged candidate gave.
KeysGiven(e) ==
  {ZFill(AsStr(k), 5) :
     k \in IF e.src.kind = "esri" THEN e.src.keys \cap UniqueZips(df) ELSE e.src.keys}

\* The failures the fallback chain names: download error, bad archive, no
\* shapefile in the archive, none of the known key columns.
NamedFailure(e) ==
  \/ e.src.kind \in {"download_error", "bad_archive", "no_shapefile", "esri_error"}
  \/ e.src.kind = "read" /\ ~HasZipCol(e.src.cols, KeyColumnsOf(script))
  \/ e.src.kind = "esri" /\ e.src.keys \cap UniqueZips(df) = {}

\* C5: the ZIP boundary fallback chain.  The candidates are tried strictly in
\* list order; a candidate that fails leaves no usable geometry (None, when
\* the failure is one of the named ones) and the next candidate is tried; the
\* first candidate that yields geometry with a key column ends the search and
\* its geometry is the result; when every candidate fails the result is the
\* no-geometry state; no exception leaves the provider.
C5_FallbackChain ==
  /\ pc # "crashed"
  /\ \A i \in 1..Len(zip_log) : zip_log[i].url = i
  /\ \A i \in 1..(Len(zip_log) - 1) : ~Yields(zip_log[i])
  /\ pc = "zips" =>
       /\ zip_try = Len(zip_log) + 1
       /\ zip_try <= NumZipUrls
       /\ \A i \in 1..Len(zip_log) : ~Yields(zip_log[i])
  /\ (pc # "zips" /\ Len(zip_log) < NumZipUrls) => Yields(zip_log[Len(zip_log)])
  /\ (zip_log # <<>> /\ Yields(zip_log[Len(zip_log)])) =>
       /\ pc # "zips"
       /\ ZipGeometryAvailable(zips_gdf)
       /\ zips_gdf.keys = KeysGiven(zip_log[Len(zip_log)])
  /\ (\A i \in 1..Len(zip_log) : ~Yields(zip_log[i])) => ~ZipGeometryAvailable(zips_gdf)
  /\ (\A i \in 1..Len(zip_log) : NamedFailure(zip_log[i])) => zips_gdf = NoGdf

\* C5 witness: the first two candidates failed, the third gave the geometry
\* and the search ended with it.
C5_Witness ==
  /\ Len(zip_log) = NumZipUrls
  /\ zip_log[1].src.kind = "download_error"
  /\ zip_log[2].src.kind = "read" /\ ~Yields(zip_log[2])
  /\ Yields(zip_log[3])
  /\ pc # "zips" /\ ZipGeometryAvailable(zips_gdf)

\* The number of rows of t whose key has a boundary in gdf.
Matched(gdf, t, key) ==
  Cardinality({r \in 1..Len(t.rows) : Cell(t, t.rows[r], key) \in gdf.keys})

\* The file was written and every feature of it has a geometry.
GeometryFile(f, n) ==
  /\ f.exists
  /\ Len(f.features) = n
  /\ \A i \in 1..Len(f.features) : f.features[i].geometry # NullGeometry

\* The input has no column for one of the columns the level script reads.
SchemaIncomplete(t) ==
  \E c \in {N_Zip, N_FIPS} \cup Range(CountyFirstCols) : ~HasCol(t, c)

\* C6: boundary-source independence in the level script.  A failure of a
\* boundary source never ends the run; whether or not the county boundaries
\* were obtained, the ZIP sources are tried and, when one gives geometry, the
\* ZIP file is written with geometry; whether or not any ZIP source gave
\* geometry, the county file is written with geometry when the county
\* boundaries were obtained.
C6_Independence ==
  script = "levels" =>
    /\ pc = "crashed" => SchemaIncomplete(csv)
    /\ (pc \in AfterLevel1 /\ ZipGeometryAvailable(zips_gdf)) =>
         GeometryFile(files["zip"], Matched(zips_gdf, df, N_Zip))
    /\ (pc \in AfterLevel2 /\ counties_gdf.present) =>
         GeometryFile(files["county"], Matched(counties_gdf, county_agg, N_FIPS))

\* C6 witness: the county source failed, a ZIP source gave geometry, and the
\* ZIP file has a feature with geometry while the county file has none.
C6_Witness ==
  /\ script = "levels" /\ pc = "done"
  /\ ~counties_gdf.present /\ ZipGeometryAvailable(zips_gdf)
  /\ files["zip"].exists /\ files["zip"].features # <<>>
  /\ files["county"].exists
  /\ \A i \in 1..Len(files["county"].features) :
       files["county"].features[i].geometry = NullGeometry

\* The features of f that carry the cells of the row.
FeaturesOf(f, t, row) ==
  {i \in 1..Len(f.features) :
     \A c \in DOMAIN f.features[i].properties :
       f.features[i].properties[c] = Cell(t, row, c)}

\* The file is the inner join of the records of t with the boundaries of gdf:
\* a record has a feature, and one only, if and only if its key is a key of
\* gdf; the feature has the geometry of that key; there is no other feature.
InnerJoinFile(f, gdf, t, key) ==
  /\ f.exists
  /\ \A r \in 1..Len(t.rows) :
       /\ Cardinality(FeaturesOf(f, t, t.rows[r])) =
            (IF Cell(t, t.rows[r], key) \in gdf.keys THEN 1 ELSE 0)
       /\ \A i \in FeaturesOf(f, t, t.rows[r]) :
            f.features[i].geometry = {Cell(t, t.rows[r], key)}
  /\ Len(f.features) = Matched(gdf, t, key)

\* C7: the direct join is an inner join.  At ZIP and county level with
\* boundary geometry, the file has a feature for a record if and only if the
\* record's key (Zip, FIPS) is in the boundary set; a record without boundary
\* gives no feature and no error, a boundary without record gives no feature.
C7_InnerJoin ==
  /\ (script = "levels" /\ pc \in AfterLevel1 /\ ZipGeometryAvailable(zips_gdf)) =>
       InnerJoinFile(files["zip"], zips_gdf, df, N_Zip)
  /\ (script = "zip" /\ pc = "done" /\ ZipGeometryAvailable(zips_gdf)) =>
       InnerJoinFile(files["zip"], zips_gdf, df, N_Zip)
  /\ (script = "levels" /\ pc \in AfterLevel2 /\ counties_gdf.present) =>
       InnerJoinFile(files["county"], counties_gdf, county_agg, N_FIPS)

\* C7 witness: the county file was written from two county records of which
\* one has a boundary, and a boundary has no record.
C7_Witness ==
  /\ script = "levels" /\ pc = "done" /\ counties_gdf.present
  /\ Len(county_agg.rows) = 2
  /\ Matched(counties_gdf, county_agg, N_FIPS) = 1
  /\ Cardinality(counties_gdf.keys) = 2
  /\ Len(files["county"].features) = 1

\* The chapter keys of the input, and the counties mapped to a chapter.
ChapterKeys(t) == GroupKeys(t, N_Chapter)
CountiesOf(t, ch) ==
  {Cell(t, t.rows[r], N_FIPS) : r \in {q \in 1..Len(t.rows) : Cell(t, t.rows[q], N_Chapter) = ch}}

\* The case of the dissolve: the chapter file was written, there is no
\* chapter shapefile, the county boundaries are there, and every county of
\* the input maps to exactly one chapter.
DissolveCase ==
  /\ script = "levels" /\ pc \in AfterLevel3
  /\ ~chapters_gdf.present /\ counties_gdf.present
  /\ \A r \in 1..Len(df.rows) : ~IsNA(N_Chapter, Cell(df, df.rows[r], N_Chapter))
  /\ \A r1, r2 \in 1..Len(df.rows) :
       Cell(df, df.rows[r1], N_FIPS) = Cell(df, df.rows[r2], N_FIPS)
         => Cell(df, df.rows[r1], N_Chapter) = Cell(df, df.rows[r2], N_Chapter)

\* The chapter file has one feature per chapter key of the input, and the
\* geometry of each is the union of the cells of the counties mapped to it.
DissolvedChapters ==
  /\ files["chapter"].exists
  /\ Len(files["chapter"].features) = Cardinality(ChapterKeys(df))
  /\ \A ch \in ChapterKeys(df) :
       \E i \in 1..Len(files["chapter"].features) :
         /\ files["chapter"].features[i].properties[N_Chapter] = ch
         /\ files["chapter"].features[i].geometry =
              CountiesOf(df, ch) \cap counties_gdf.keys

\* C8 as stated: in the case of the dissolve the chapter file has as many
\* features as there are distinct chapter keys, each with the union of the
\* geometries of its counties.
C8_AsStated == DissolveCase => DissolvedChapters

\* C8: dissolve chaining.  In the case of the dissolve, and when every
\* chapter key of the input has at least one county with a boundary in the
\* county boundary set, the chapter file has exactly as many features as
\* there are distinct chapter keys, and the geometry of each is the union of
\* the cells of the counties mapped to that chapter that have a boundary.
C8_DissolveChaining ==
  (DissolveCase /\ \A ch \in ChapterKeys(df) : CountiesOf(df, ch) \cap counties_gdf.keys # {})
    => DissolvedChapters

\* C8 witness: two counties with boundaries were dissolved into one chapter.
C8_Witness ==
  /\ DissolveCase /\ pc = "done"
  /\ Cardinality(ChapterKeys(df)) = 1
  /\ Len(files["chapter"].features) = 1
  /\ Cardinality(files["chapter"].features[1].geometry) = 2

\* C9: in every file written, no feature's properties have a key whose value
\* is missing.
C9_NoNullProperties ==
  \A l \in Levels :
    \A i \in 1..Len(files[l].features) :
      \A c \in DOMAIN files[l].features[i].properties :
        ~IsNA(c, files[l].features[i].properties[c])

\* C10: a schema mismatch degrades instead of failing.  When the input has no
\* column for a required role the level script still completes, and all rows
\* of the affected level are in one group.
C10_SchemaDegrades ==
  (script = "levels" /\ SchemaIncomplete(csv)) =>
    /\ pc # "crashed"
    /\ pc = "done" =>
         \A a \in {county_agg, chapter_agg, region_agg, division_agg} : Len(a.rows) <= 1

\* C11: no partial artifact.  Whatever step the generation of a level fails
\* at, the write of its feature collection included, the file of a level is
\* either not there or a complete feature collection.
C11_NoPartialArtifact ==
  \A l \in Levels : files[l].exists => files[l].complete

\* The file of level l that the script wrote for the upload is in the
\* geojson_output directory of the upload's session.
ArtifactOnDisk(l) ==
  (AppDir \o output_dir(Uploaded) \o <<expected_filenames(l)>>) \in DiskFiles(out_dir)

\* C19: returned results are downloadable.  A download request with the path
\* process_level gives for the artifact of a level, the artifact being in the
\* session's output directory, returns that file; a download request whose
\* path resolves outside the output folder is rejected.
C19_Downloadable ==
  (script = "app" /\ download.status # 0) =>
    /\ \A l \in Levels :
         (download.path = FileEntry(l, l, Uploaded).path /\ ArtifactOnDisk(l)) =>
           /\ download.status = 200
           /\ download.file = AppDir \o output_dir(Uploaded) \o <<expected_filenames(l)>>
    /\ ~StartsWith(SplitText(normpath(JoinText(OUTPUT_FOLDER) \o <<"/">> \o download.path)),
                   OUTPUT_FOLDER) => download.status = 400

\* C20: working-area completeness.  The run of the script of the requested
\* level finds, in the session directory, the script, its CSV and every module
\* it imports; and when the run ends with status 0 (boundary sources
\* reachable), the file of the level is found: the request does not end with
\* an error.
C20_WorkingAreaComplete ==
  (script = "app" /\ pc = "responded" /\ last_run # NoRun) =>
    /\ last_run.missing = {}
    /\ last_run.kind = "ok" => response.status = 200

\* C12: run isolation.  Of two requests for different uploads handled at the
\* same time, each runs its script in the session directory of its own upload,
\* and the files it returns were computed from its own upload.
C12_RunIsolation ==
  \A t \in Threads :
    /\ threads[t].ran_in # <<>> => threads[t].ran_in = AppDir \o temp_dir(threads[t].filename)
    /\ \A f \in threads[t].files : f.from = threads[t].filename

\* The text without a '.0' at its end.
WithoutTrailingDotZero(s) ==
  IF Len(s) >= 2 /\ s[Len(s) - 1] = "." /\ s[Len(s)] = "0"
  THEN SubSeq(s, 1, Len(s) - 2)
  ELSE s

\* The text with zeros on its left up to five characters.
ZeroPadded5(s) == [i \in 1..(5 - Len(s)) |-> "0"] \o s

\* The first call of standardize_dataframe has returned.
Standardized == script = "detector" /\ pc = "standardized"

\* C13: identifier width.  After standardize_dataframe every Zip value has
\* exactly five characters and, where the input has a ZIP column with a value,
\* it is that value without a trailing '.0', zero-padded on the left; every
\* FIPS value has exactly five characters and, where the input has a FIPS
\* column with a value, it is that value zero-padded on the left.
C13_IdentifierWidth ==
  Standardized =>
    \A r \in 1..Len(df.rows) :
      LET detected == detect_columns(csv.columns)
          zip == Cell(df, df.rows[r], N_Zip)
          fips == Cell(df, df.rows[r], N_FIPS)
      IN /\ Len(zip) = 5
         /\ Len(fips) = 5
         /\ (N_Zip \in DOMAIN detected /\ Cell(csv, csv.rows[r], detected[N_Zip]) # NaN) =>
              zip = ZeroPadded5(WithoutTrailingDotZero(Cell(csv, csv.rows[r], detected[N_Zip])))
         /\ (N_FIPS \in DOMAIN detected /\ Cell(csv, csv.rows[r], detected[N_FIPS]) # NaN) =>
              fips = ZeroPadded5(Cell(csv, csv.rows[r], detected[N_FIPS]))

\* C14: idempotent normalization.  Standardizing the table that
\* standardize_dataframe returned leaves every Zip and every FIPS value as it
\* is.
C14_Idempotent ==
  (script = "detector" /\ pc = "standardized again") =>
    \A r \in 1..Len(df.rows) :
      /\ Cell(df, df.rows[r], N_Zip) = Cell(csv, csv.rows[r], N_Zip)
      /\ Cell(df, df.rows[r], N_FIPS) = Cell(csv, csv.rows[r], N_FIPS)

\* The position in its role's list of the pattern the column matches, 0 when
\* it matches none.
PatternOf(role, col) ==
  IF \E i \in 1..Len(role.patterns) : role.patterns[i] = normalize_column_name(col)
  THEN CHOOSE i \in 1..Len(role.patterns) : role.patterns[i] = normalize_column_name(col)
  ELSE 0

\* C15: alias precedence.  detect_columns maps every role to a column that
\* matches the pattern earliest in the role's list among the columns of the
\* input, and maps no role when no column matches; the mapping is the same for
\* every ordering of the columns.
C15_AliasPrecedence ==
  (script = "detector" /\ pc \in {"load", "standardized", "crashed"}) =>
    LET detected == detect_columns(csv.columns)
        Matching(role) == {c \in Range(csv.columns) : PatternOf(role, c) # 0}
    IN /\ \A q \in 1..Len(Roles) :
            IF Matching(Roles[q]) = {}
            THEN Roles[q].name \notin DOMAIN detected
            ELSE /\ Roles[q].name \in DOMAIN detected
                 /\ detected[Roles[q].name] \in Matching(Roles[q])
                 /\ \A c \in Matching(Roles[q]) :
                      PatternOf(Roles[q], detected[Roles[q].name]) <= PatternOf(Roles[q], c)
       /\ \A p \in Orderings(csv.columns) : detect_columns(p) = detected

\* C16: shape of the standardized table.  standardize_dataframe returns a
\* table (it does not raise) in which each of Zip, FIPS, County, Chapter,
\* Region, Division is the name of exactly one column, and every column of the
\* input that no role was mapped to is there under its name with its values.
C16_NormalizerShape ==
  (script = "detector" /\ pc \in {"standardized", "crashed"}) =>
    /\ pc = "standardized"
    /\ \A i \in 1..Len(required_cols) : Count(df, required_cols[i]) = 1
    /\ LET detected == detect_columns(csv.columns)
       IN \A c \in Range(csv.columns) \ {detected[k] : k \in DOMAIN detected} :
            /\ Count(df, c) >= 1
            /\ c \notin {N_Zip, N_FIPS} =>
                 \A r \in 1..Len(df.rows) : Cell(df, df.rows[r], c) = Cell(csv, csv.rows[r], c)

\* The aggregated records of the four levels, each with its group key and
\* the positions of the script at which its level has just made it (or was
\* interrupted writing its file).
Aggregated ==
  {[agg |-> county_agg, key |-> N_FIPS, at |-> {"level3", "interrupted"}],
   [agg |-> chapter_agg, key |-> N_Chapter, at |-> {"level4", "interrupted"}],
   [agg |-> region_agg, key |-> N_Region, at |-> {"level5", "interrupted"}],
   [agg |-> division_agg, key |-> N_Division, at |-> {"done", "interrupted"}]}

\* The columns of an aggregated record that are carried, not summed: those of
\* the input other than the group key and the year columns.
CarriedCols(a) ==
  (Range(a.agg.columns) \cap Range(df.columns)) \ ({a.key} \cup Range(YearCols(df)))

\* The rows of the input whose cell in column number ki is k, as positions in
\* input order: the group of key k.
GroupRows(ki, k) == {i \in 1..Len(df.rows) : df.rows[i][ki] = k}

\* The rows of the group in which column c, of number ci, is not missing.
PresentRows(group, c, ci) == {i \in group : ~IsNA(c, df.rows[i][ci])}

\* The smallest of a set of positions.
Least(S) == CHOOSE i \in S : \A j \in S : i <= j

\* The carried cells of the aggregated record a, each with the group it was
\* made from: the value, the column with its number in the input, and the
\* rows of the group.
CarriedCells(a) ==
  IF a.agg.rows = <<>> THEN {}
  ELSE UNION {UNION {{[value |-> a.agg.rows[g][ai], col |-> c, ci |-> ci,
                       group |-> GroupRows(ki, a.agg.rows[g][ak])] :
                        g \in 1..Len(a.agg.rows)} :
                      ai \in {ColIdx(a.agg, c)}, ci \in {ColIdx(df, c)},
                      ki \in {ColIdx(df, a.key)}, ak \in {ColIdx(a.agg, a.key)}} :
                c \in CarriedCols(a)}

HasGeometry(l) ==
  /\ files[l].exists /\ files[l].complete /\ files[l].features # <<>>
  /\ \A i \in 1..Len(files[l].features) : files[l].features[i].geometry # NullGeometry

\* The union of the geometries of the features of level l whose property col
\* is v.
UnionOfFeatures(l, col, v) ==
  UNION {files[l].features[i].geometry :
           i \in {j \in 1..Len(files[l].features) :
                     /\ col \in DOMAIN files[l].features[j].properties
                     /\ files[l].features[j].properties[col] = v}}

\* C18: derivation order.  The level script having finished, the geometry of
\* every region, where regions have one, is the union of the chapter
\* boundaries of the chapter file that belong to the region, and the geometry
\* of every division the union of the region boundaries of the region file
\* that belong to the division.
C18_DerivationOrder ==
  (script = "levels" /\ pc = "done") =>
    /\ (HasGeometry("region") /\ HasGeometry("chapter")) =>
         \A i \in 1..Len(files["region"].features) :
           files["region"].features[i].geometry
             = UnionOfFeatures("chapter", N_Region,
                               files["region"].features[i].properties[N_Region])
    /\ (HasGeometry("division") /\ HasGeometry("region")) =>
         \A i \in 1..Len(files["division"].features) :
           files["division"].features[i].geometry
             = UnionOfFeatures("region", N_Division,
                               files["division"].features[i].properties[N_Division])

\* C21: the working directory is restored.  After any sequence of requests
\* handled one at a time, whatever each call of process_level came to (a
\* result, a script that failed, a timeout, no file found), the working
\* directory of the server is the one it had before the first call.
C21_CwdRestored ==
  script = "app" => cwd = AppDir

\* A call of process_level has raised after a script that ran into the
\* timeout, in a session directory that a request before had already used,
\* and the working directory is the server's.
C21_Witness ==
  /\ script = "app" /\ pc = "responded"
  /\ last_run.kind = "timeout" /\ response.status = 500
  /\ out_dir # {}
  /\ AppDir \o temp_dir(filename) \in dirs
  /\ cwd = AppDir

====
